---- MODULE Spec2Model ----
(***************************************************************************)
(* Model of pkg/did/client.go: the Sidetree DID client.  One call of       *)
(* UpdateDID, RecoverDID or DeactivateDID runs through option validation,  *)
(* endpoint resolution, config fetch, request build and send.  The         *)
(* collaborators (endpoint service, config service, HTTP transport, the    *)
(* Sidetree core library) answer nondeterministically.                     *)
(***************************************************************************)
EXTENDS Integers, Sequences, FiniteSets, TLC

VARIABLES
    cfgClient,          \* the Client's fields after New (authToken, tlsConfig)
    pc,                 \* per call: position in the handler
    op,                 \* per call: "Update" | "Recover" | "Deactivate" | "none"
    did,                \* per call: the did argument (sequence of characters)
    domain,             \* per call: the domain argument
    opts,               \* per call: the options struct after applying opts
    sidetreeEndpoint,   \* per call: local sidetreeEndpoint
    sidetreeConfig,     \* per call: local sidetreeConfig (its MultiHashAlgorithm)
    frame,              \* per call: the locals of the request builder
    req,                \* per call: the built request
    resp,               \* per call: what the transport answered to the POST
    err,                \* per call: the error returned (<<>> is nil)
    calls,              \* per call: collaborator invocations, in order
    fnPc,               \* unit application of a helper: "idle" | "done"
    fnArgs,             \* unit application of a helper: its name and arguments
    fnOut               \* unit application of a helper: what it returned

callVars == <<cfgClient, pc, op, did, domain, opts, sidetreeEndpoint, sidetreeConfig,
              frame, req, resp, err, calls>>
fnVars == <<fnPc, fnArgs, fnOut>>
vars == <<callVars, fnVars>>

-----------------------------------------------------------------------------
(* Bounds *)

MaxLen == 3            \* longest did string
MaxEndpoints == 2      \* longest endpoint list (explicit or discovered)

(* Program constants *)

StatusOK == 200

-----------------------------------------------------------------------------
(* Errors: an error is the chain of its messages, outermost first; nil is <<>> *)

Nil == <<>>
Err(msg) == <<msg>>
Wrap(msg, e) == <<msg>> \o e

Procs == {"p1", "p2"}

-----------------------------------------------------------------------------
(* Strings of the did argument *)

Chars == {":", "a"}
DIDs == UNION {[1..n -> Chars] : n \in 0..MaxLen}

SeqsUpTo(S, n) == UNION {[1..k -> S] : k \in 0..n}

\* strings.LastIndex(id, sep) for a one-character sep: 0-based, -1 if absent.
\* Scans from the end, as the library does.
RECURSIVE LastIndexFrom(_, _, _)
LastIndexFrom(s, c, i) ==
    IF i = 0 THEN -1
    ELSE IF s[i] = c THEN i - 1
    ELSE LastIndexFrom(s, c, i - 1)

LastIndex(s, c) == LastIndexFrom(s, c, Len(s))

\* a mutated LastIndexFrom: scans from the front (strings.Index)
RECURSIVE FirstIndexFrom(_, _, _)
FirstIndexFrom(s, c, i) ==
    IF i > Len(s) THEN -1
    ELSE IF s[i] = c THEN i - 1
    ELSE FirstIndexFrom(s, c, i + 1)

getUniqueSuffix_First(id) ==
    LET p == FirstIndexFrom(id, ":", 1)
    IN  IF p = -1
        THEN [val |-> <<>>, err |-> Err("unique suffix not provided in id")]
        ELSE [val |-> SubSeq(id, p + 2, Len(id)), err |-> Nil]

getUniqueSuffix(id) ==
    LET p == LastIndex(id, ":")
    IN  IF p = -1
        THEN [val |-> <<>>, err |-> Err("unique suffix not provided in id")]
        ELSE [val |-> SubSeq(id, p + 2, Len(id)), err |-> Nil]

-----------------------------------------------------------------------------
(* Keys *)

\* a crypto.PrivateKey / crypto.PublicKey value: its dynamic type, an identity,
\* and whether the library can encode it as a JWK
NilKey == [type |-> "nil", id |-> "", valid |-> FALSE]

SigningKeys ==
    { [type |-> "ecdsa",   id |-> "k1", valid |-> TRUE],
      [type |-> "ecdsa",   id |-> "k1", valid |-> FALSE],
      [type |-> "ed25519", id |-> "k2", valid |-> TRUE],
      [type |-> "rsa",     id |-> "k3", valid |-> TRUE] }

\* key.Public(): the public half of a private key
Public(key) == [type |-> key.type, id |-> "pub:" \o key.id, valid |-> key.valid]

\* public keys a caller may commit to; one is the public half of a signing key
NextKeys ==
    { [type |-> "ecdsa",   id |-> "pub:n1", valid |-> TRUE],
      [type |-> "ed25519", id |-> "pub:k2", valid |-> TRUE],
      [type |-> "ecdsa",   id |-> "pub:n3", valid |-> FALSE] }

NilJWK == [kty |-> "", x |-> ""]

\* pubkey.GetPublicKeyJWK
GetPublicKeyJWK(pub) ==
    IF pub.valid /\ pub.type \in {"ecdsa", "ed25519"}
    THEN [val |-> [kty |-> IF pub.type = "ecdsa" THEN "EC" ELSE "OKP", x |-> pub.id],
          err |-> Nil]
    ELSE [val |-> NilJWK, err |-> Err("unknown key type")]

-----------------------------------------------------------------------------
(* Multihash, commitment, reveal value *)

Algs == {"sha2_256", "sha2_512", "unsupported"}
SupportedAlgs == {"sha2_256", "sha2_512"}

\* commitment.GetCommitment: a one-way function of the key and the algorithm
GetCommitment(jwk, alg) ==
    IF alg \in SupportedAlgs
    THEN [val |-> "commitment(" \o jwk.x \o "," \o alg \o ")", err |-> Nil]
    ELSE [val |-> "", err |-> Err("algorithm not supported, unable to compute hash")]

\* commitment.GetRevealValue; libFail: the library cannot canonicalize the JWK
GetRevealValue(jwk, alg, libFail) ==
    IF alg \in SupportedAlgs /\ ~libFail
    THEN [val |-> "reveal(" \o jwk.x \o "," \o alg \o ")", err |-> Nil]
    ELSE [val |-> "", err |-> Err("failed to get reveal value")]

\* defaultRevealValue: the derivation error is logged, "" is returned
defaultRevealValue(jwk, multihashCode, libFail) ==
    LET r == GetRevealValue(jwk, multihashCode, libFail)
    IN  IF r.err # Nil
        THEN [val |-> "", logged |-> Wrap("Failed to default reveal value", r.err)]
        ELSE [val |-> r.val, logged |-> Nil]

-----------------------------------------------------------------------------
(* Signer *)

NilSigner == [alg |-> "", kid |-> "", key |-> ""]

\* a mutated getSigner: the default case falls through to the edsigner
getSigner_NoDefault(signingkey, keyID) ==
    IF signingkey.type = "ecdsa"
    THEN LET updateKey == GetPublicKeyJWK(Public(signingkey))
         IN  IF updateKey.err # Nil
             THEN [signer |-> NilSigner, key |-> NilJWK, err |-> updateKey.err]
             ELSE [signer |-> [alg |-> "ES256", kid |-> keyID, key |-> signingkey.id],
                   key |-> updateKey.val, err |-> Nil]
    ELSE [signer |-> [alg |-> "EdDSA", kid |-> keyID, key |-> signingkey.id],
          key |-> [kty |-> "OKP", x |-> signingkey.id], err |-> Nil]

getSigner(signingkey, keyID) ==
    IF signingkey.type = "ecdsa"
    THEN LET updateKey == GetPublicKeyJWK(Public(signingkey))
         IN  IF updateKey.err # Nil
             THEN [signer |-> NilSigner, key |-> NilJWK, err |-> updateKey.err]
             ELSE [signer |-> [alg |-> "ES256", kid |-> keyID, key |-> signingkey.id],
                   key |-> updateKey.val, err |-> Nil]
    ELSE IF signingkey.type = "ed25519"
    THEN LET updateKey == GetPublicKeyJWK(Public(signingkey))
         IN  IF updateKey.err # Nil
             THEN [signer |-> NilSigner, key |-> NilJWK, err |-> updateKey.err]
             ELSE [signer |-> [alg |-> "EdDSA", kid |-> keyID, key |-> signingkey.id],
                   key |-> updateKey.val, err |-> Nil]
    ELSE [signer |-> NilSigner, key |-> NilJWK, err |-> Err("key not supported")]

-----------------------------------------------------------------------------
(* Endpoint resolution *)

URLs == {"u1", "u2"}
Endpoints == {[URL |-> u] : u \in URLs}
EndpointLists == SeqsUpTo(Endpoints, MaxEndpoints)

\* what endpointService.GetEndpoints answers
DiscoveryAnswers ==
    {[endpoints |-> l, err |-> Nil] : l \in EndpointLists}
        \cup {[endpoints |-> <<>>, err |-> Err("discovery failed")]}

PanicIndex == Err("panic: runtime error: index out of range")

\* endpoints[0].URL
FirstURL(endpoints, discovered) ==
    IF Len(endpoints) = 0
    THEN [url |-> "", err |-> PanicIndex, discovered |-> discovered, used |-> endpoints]
    ELSE [url |-> endpoints[1].URL, err |-> Nil, discovered |-> discovered,
          used |-> endpoints]

\* a mutated getEndpoint: the explicit list wins over the domain
getEndpoint_ExplicitFirst(dom, sidetreeEndpoints, ans) ==
    IF dom = "" /\ Len(sidetreeEndpoints) = 0
    THEN [url |-> "", err |-> Err("domain is empty and sidetree endpoints is empty"),
          discovered |-> FALSE, used |-> <<>>]
    ELSE IF Len(sidetreeEndpoints) = 0
    THEN IF ans.err # Nil
         THEN [url |-> "", err |-> Wrap("failed to get endpoints", ans.err),
               discovered |-> TRUE, used |-> <<>>]
         ELSE IF Len(ans.endpoints) = 0
         THEN [url |-> "", err |-> Err("list of endpoints is empty"),
               discovered |-> TRUE, used |-> <<>>]
         ELSE FirstURL(ans.endpoints, TRUE)
    ELSE FirstURL(sidetreeEndpoints, FALSE)

\* a mutated getEndpoint: the guard on two empty inputs is missing
getEndpoint_NoGuard(dom, sidetreeEndpoints, ans) ==
    IF dom # ""
    THEN IF ans.err # Nil
         THEN [url |-> "", err |-> Wrap("failed to get endpoints", ans.err),
               discovered |-> TRUE, used |-> <<>>]
         ELSE IF Len(ans.endpoints) = 0
         THEN [url |-> "", err |-> Err("list of endpoints is empty"),
               discovered |-> TRUE, used |-> <<>>]
         ELSE FirstURL(ans.endpoints, TRUE)
    ELSE FirstURL(sidetreeEndpoints, FALSE)

\* Client.getEndpoint; ans is the endpoint service's answer, read only when the
\* service is invoked (discovered = TRUE)
getEndpoint(dom, sidetreeEndpoints, ans) ==
    IF dom = "" /\ Len(sidetreeEndpoints) = 0
    THEN [url |-> "", err |-> Err("domain is empty and sidetree endpoints is empty"),
          discovered |-> FALSE, used |-> <<>>]
    ELSE IF dom # ""
    THEN IF ans.err # Nil
         THEN [url |-> "", err |-> Wrap("failed to get endpoints", ans.err),
               discovered |-> TRUE, used |-> <<>>]
         ELSE IF Len(ans.endpoints) = 0
         THEN [url |-> "", err |-> Err("list of endpoints is empty"),
               discovered |-> TRUE, used |-> <<>>]
         ELSE FirstURL(ans.endpoints, TRUE)
    ELSE FirstURL(sidetreeEndpoints, FALSE)

-----------------------------------------------------------------------------
(* Patches *)

PatchActions == <<"remove-public-keys", "remove-services", "add-services",
                  "add-public-keys">>
PatchActionSet == {PatchActions[i] : i \in 1..Len(PatchActions)}

\* the library's patch constructors: fail for the categories in libFail
NewPatch(action, value, libFail) ==
    IF action \in libFail
    THEN [patch |-> [action |-> action, value |-> <<>>],
          err |-> Err("invalid patch: " \o action)]
    ELSE [patch |-> [action |-> action, value |-> value], err |-> Nil]

createRemovePublicKeysPatch(o, libFail) ==
    NewPatch("remove-public-keys", o.RemovePublicKeys, libFail)

createRemoveServicesPatch(o, libFail) ==
    NewPatch("remove-services", o.RemoveServices, libFail)

createAddServicesPatch(o, libFail) ==
    NewPatch("add-services", o.AddServices, libFail)

\* doc.PopulateRawPublicKeys: an unrecognized type tag fails the whole list
PopulateRawPublicKeys(keys) ==
    IF \E i \in 1..Len(keys) : keys[i].Type = "badType"
    THEN [val |-> <<>>, err |-> Err("invalid key type: badType")]
    ELSE [val |-> keys, err |-> Nil]

createAddPublicKeysPatch(o, libFail) ==
    LET rawPublicKeys == PopulateRawPublicKeys(o.AddPublicKeys)
    IN  IF rawPublicKeys.err # Nil
        THEN [patch |-> [action |-> "add-public-keys", value |-> <<>>],
              err |-> rawPublicKeys.err]
        ELSE NewPatch("add-public-keys", rawPublicKeys.val, libFail)

\* a mutated createUpdatePatches: add-public-keys is appended before add-services
createUpdatePatches_Reordered(o, libFail) ==
    LET p1 == createRemovePublicKeysPatch(o, libFail)
        p2 == createRemoveServicesPatch(o, libFail)
        p3 == createAddPublicKeysPatch(o, libFail)
        p4 == createAddServicesPatch(o, libFail)
        s1 == IF Len(o.RemovePublicKeys) # 0 THEN <<p1.patch>> ELSE <<>>
        s2 == IF Len(o.RemoveServices) # 0 THEN s1 \o <<p2.patch>> ELSE s1
        s3 == IF Len(o.AddPublicKeys) # 0 THEN s2 \o <<p3.patch>> ELSE s2
        s4 == IF Len(o.AddServices) # 0 THEN s3 \o <<p4.patch>> ELSE s3
    IN  IF Len(o.RemovePublicKeys) # 0 /\ p1.err # Nil THEN [val |-> <<>>, err |-> p1.err]
        ELSE IF Len(o.RemoveServices) # 0 /\ p2.err # Nil THEN [val |-> <<>>, err |-> p2.err]
        ELSE IF Len(o.AddPublicKeys) # 0 /\ p3.err # Nil THEN [val |-> <<>>, err |-> p3.err]
        ELSE IF Len(o.AddServices) # 0 /\ p4.err # Nil THEN [val |-> <<>>, err |-> p4.err]
        ELSE [val |-> s4, err |-> Nil]

\* createUpdatePatches: the four categories in source order, each skipped when
\* its collection is empty, the first failure returned
createUpdatePatches(o, libFail) ==
    LET p1 == createRemovePublicKeysPatch(o, libFail)
        p2 == createRemoveServicesPatch(o, libFail)
        p3 == createAddServicesPatch(o, libFail)
        p4 == createAddPublicKeysPatch(o, libFail)
        s1 == IF Len(o.RemovePublicKeys) # 0 THEN <<p1.patch>> ELSE <<>>
        s2 == IF Len(o.RemoveServices) # 0 THEN s1 \o <<p2.patch>> ELSE s1
        s3 == IF Len(o.AddServices) # 0 THEN s2 \o <<p3.patch>> ELSE s2
        s4 == IF Len(o.AddPublicKeys) # 0 THEN s3 \o <<p4.patch>> ELSE s3
    IN  IF Len(o.RemovePublicKeys) # 0 /\ p1.err # Nil THEN [val |-> <<>>, err |-> p1.err]
        ELSE IF Len(o.RemoveServices) # 0 /\ p2.err # Nil THEN [val |-> <<>>, err |-> p2.err]
        ELSE IF Len(o.AddServices) # 0 /\ p3.err # Nil THEN [val |-> <<>>, err |-> p3.err]
        ELSE IF Len(o.AddPublicKeys) # 0 /\ p4.err # Nil THEN [val |-> <<>>, err |-> p4.err]
        ELSE [val |-> s4, err |-> Nil]

-----------------------------------------------------------------------------
(* Recovery document *)

\* a doc.PublicKey: Value is "raw" (bytes that do not parse as a JWK, whatever
\* they look like), "jwk" (a JSON JWK) or "badjwk" (a JSON JWK that parses but
\* whose key value cannot be extracted)
DocKey(id, kind) == [ID |-> id, Type |-> "JwsVerificationKey2020",
                     Value |-> [kind |-> kind, data |-> id]]

\* jwk.UnmarshalJSON(value) returns no error
UnmarshalJSON(value) == value.kind \in {"jwk", "badjwk"}

\* pk.GetValueFromJWK(&pub): pk with its Value set to the public key's bytes
GetValueFromJWK(pk) ==
    IF pk.Value.kind = "jwk"
    THEN [val |-> [pk EXCEPT !.Value = [kind |-> "raw",
                                        data |-> "public(" \o pk.Value.data \o ")"]],
          err |-> Nil]
    ELSE [val |-> pk, err |-> Err("unsupported public key type in kid")]

\* a mutated unwrapPubKeyJWK: a JWK whose value cannot be extracted is kept as
\* it is
unwrapPubKeyJWK_IgnoreError(key) ==
    LET out == key
        got == GetValueFromJWK(out)
    IN  IF UnmarshalJSON(out.Value) /\ got.err = Nil
        THEN [val |-> got.val, err |-> Nil, key |-> key]
        ELSE [val |-> out, err |-> Nil, key |-> key]

\* unwrapPubKeyJWK: key is passed by value and out is a copy of it, so the
\* caller's key (field key of the result) is as it was
unwrapPubKeyJWK(key) ==
    LET out == key
        got == GetValueFromJWK(out)
    IN  IF ~UnmarshalJSON(out.Value)
        THEN [val |-> out, err |-> Nil, key |-> key]
        ELSE IF got.err # Nil
        THEN [val |-> out, err |-> got.err, key |-> key]
        ELSE [val |-> got.val, err |-> Nil, key |-> key]

\* the caller's list after the loop of buildRecoverRequest ran over it
RECURSIVE rangeKeys(_)
rangeKeys(publicKeys) ==
    IF publicKeys = <<>> THEN <<>>
    ELSE LET parsedKey == unwrapPubKeyJWK(Head(publicKeys))
         IN  IF parsedKey.err # Nil
             THEN <<parsedKey.key>> \o Tail(publicKeys)
             ELSE <<parsedKey.key>> \o rangeKeys(Tail(publicKeys))

\* the loop of buildRecoverRequest over publicKeys
RECURSIVE parseKeys(_, _)
parseKeys(publicKeys, parsedKeys) ==
    IF publicKeys = <<>>
    THEN [val |-> parsedKeys, err |-> Nil]
    ELSE LET parsedKey == unwrapPubKeyJWK(Head(publicKeys))
         IN  IF parsedKey.err # Nil
             THEN [val |-> <<>>, err |-> parsedKey.err]
             ELSE parseKeys(Tail(publicKeys), Append(parsedKeys, parsedKey.val))

-----------------------------------------------------------------------------
(* Request builders *)

NoDoc == [PublicKey |-> <<>>, Service |-> <<>>]

\* the serialized operation request, by its RequestInfo fields
NoReq == [Type |-> "none", DidSuffix |-> <<>>, RevealValue |-> "",
          UpdateCommitment |-> "", RecoveryCommitment |-> "", Key |-> NilJWK,
          Patches |-> <<>>, OpaqueDocument |-> NoDoc, MultihashCode |-> "",
          Signer |-> NilSigner]

\* the builder's locals; steps lists the stages entered, in order, logged what
\* it wrote to the log
EmptyFrame == [steps |-> <<>>, updateCommitment |-> "", recoveryCommitment |-> "",
               signer |-> NilSigner, key |-> NilJWK, patches |-> <<>>,
               didSuffix |-> <<>>, revealValue |-> "", doc |-> NoDoc,
               logged |-> Nil]

Step(f, name) == [f EXCEPT !.steps = Append(@, name)]

\* what the Sidetree core library and the doc package answer during one build
LibAnswers ==
    [patchFail : {{}, {"add-services"}, {"remove-public-keys", "add-public-keys"}},
     docFail : BOOLEAN, revealFail : BOOLEAN, newReqFail : BOOLEAN]
\* the answers each builder reads
UpdateLibAnswers == {l \in LibAnswers : ~l.docFail}
RecoverLibAnswers == {l \in LibAnswers : l.patchFail = {}}
DeactivateLibAnswers == {l \in LibAnswers : l.patchFail = {} /\ ~l.docFail}

\* a mutated getCommitment: the two commitments are returned in the other order
getCommitment_Swapped(cfg, o) ==
    LET nextRecoveryKey == GetPublicKeyJWK(o.NextRecoveryPublicKey)
        nextUpdateKey == GetPublicKeyJWK(o.NextUpdatePublicKey)
        nextRecoveryCommitment == GetCommitment(nextRecoveryKey.val, cfg)
        nextUpdateCommitment == GetCommitment(nextUpdateKey.val, cfg)
    IN  IF nextRecoveryKey.err # Nil \/ nextUpdateKey.err # Nil
        THEN [recovery |-> "", update |-> "", err |-> Err("failed to get next key")]
        ELSE IF nextRecoveryCommitment.err # Nil
        THEN [recovery |-> "", update |-> "", err |-> nextRecoveryCommitment.err]
        ELSE IF nextUpdateCommitment.err # Nil
        THEN [recovery |-> "", update |-> "", err |-> nextUpdateCommitment.err]
        ELSE [recovery |-> nextUpdateCommitment.val,
              update |-> nextRecoveryCommitment.val, err |-> Nil]

\* getCommitment (of the recover builder)
getCommitment(cfg, o) ==
    LET nextRecoveryKey == GetPublicKeyJWK(o.NextRecoveryPublicKey)
        nextUpdateKey == GetPublicKeyJWK(o.NextUpdatePublicKey)
        nextRecoveryCommitment == GetCommitment(nextRecoveryKey.val, cfg)
        nextUpdateCommitment == GetCommitment(nextUpdateKey.val, cfg)
    IN  IF nextRecoveryKey.err # Nil
        THEN [recovery |-> "", update |-> "",
              err |-> Wrap("failed to get next recovery key : ", nextRecoveryKey.err)]
        ELSE IF nextUpdateKey.err # Nil
        THEN [recovery |-> "", update |-> "",
              err |-> Wrap("failed to get next update key : ", nextUpdateKey.err)]
        ELSE IF nextRecoveryCommitment.err # Nil
        THEN [recovery |-> "", update |-> "", err |-> nextRecoveryCommitment.err]
        ELSE IF nextUpdateCommitment.err # Nil
        THEN [recovery |-> "", update |-> "", err |-> nextUpdateCommitment.err]
        ELSE [recovery |-> nextRecoveryCommitment.val,
              update |-> nextUpdateCommitment.val, err |-> Nil]

\* Client.buildUpdateRequest
buildUpdateRequest(id, cfg, o, lib) ==
    LET nextUpdateKey == GetPublicKeyJWK(o.NextUpdatePublicKey)
        nextUpdateCommitment == GetCommitment(nextUpdateKey.val, cfg)
        s == getSigner(o.SigningKey, o.SigningKeyID)
        patches == createUpdatePatches(o, lib.patchFail)
        didSuffix == getUniqueSuffix(id)
        revealValue == IF o.RevealValue = ""
                       THEN defaultRevealValue(s.key, cfg, lib.revealFail)
                       ELSE [val |-> o.RevealValue, logged |-> Nil]
        f1 == Step(EmptyFrame, "commitment")
        f2 == [Step(f1, "signer") EXCEPT !.updateCommitment = nextUpdateCommitment.val]
        f3 == [Step(f2, "patches") EXCEPT !.signer = s.signer, !.key = s.key]
        f4 == [Step(f3, "suffix") EXCEPT !.patches = patches.val]
        f5 == [Step(f4, IF o.RevealValue = "" THEN "defaultReveal" ELSE "callerReveal")
                  EXCEPT !.didSuffix = didSuffix.val]
        f6 == [Step(f5, "assemble") EXCEPT !.revealValue = revealValue.val,
                                           !.logged = revealValue.logged]
    IN  IF nextUpdateKey.err # Nil
        THEN [req |-> NoReq, frame |-> f1,
              err |-> Wrap("failed to get next update key : ", nextUpdateKey.err)]
        ELSE IF nextUpdateCommitment.err # Nil
        THEN [req |-> NoReq, frame |-> f1, err |-> nextUpdateCommitment.err]
        ELSE IF s.err # Nil
        THEN [req |-> NoReq, frame |-> f2, err |-> s.err]
        ELSE IF patches.err # Nil
        THEN [req |-> NoReq, frame |-> f3, err |-> patches.err]
        ELSE IF didSuffix.err # Nil
        THEN [req |-> NoReq, frame |-> f4, err |-> didSuffix.err]
        ELSE IF lib.newReqFail
        THEN [req |-> NoReq, frame |-> f6, err |-> Err("invalid update request")]
        ELSE [req |-> [NoReq EXCEPT !.Type = "update", !.DidSuffix = didSuffix.val,
                          !.RevealValue = revealValue.val,
                          !.UpdateCommitment = nextUpdateCommitment.val,
                          !.Key = s.key, !.Patches = patches.val,
                          !.MultihashCode = cfg, !.Signer = s.signer],
              frame |-> f6, err |-> Nil]

\* a mutated buildDeactivateRequest: the caller's reveal value is not used
buildDeactivateRequest_AlwaysDefault(id, cfg, o, lib) ==
    LET s == getSigner(o.SigningKey, o.SigningKeyID)
        didSuffix == getUniqueSuffix(id)
        revealValue == defaultRevealValue(s.key, cfg, lib.revealFail)
        f4 == [EmptyFrame EXCEPT !.steps = <<"signer", "suffix", "defaultReveal", "assemble">>,
                                 !.signer = s.signer, !.key = s.key,
                                 !.didSuffix = didSuffix.val,
                                 !.revealValue = revealValue.val,
                                 !.logged = revealValue.logged]
    IN  IF s.err # Nil \/ didSuffix.err # Nil \/ lib.newReqFail
        THEN [req |-> NoReq, frame |-> Step(EmptyFrame, "signer"),
              err |-> Err("key not supported")]
        ELSE [req |-> [NoReq EXCEPT !.Type = "deactivate", !.DidSuffix = didSuffix.val,
                          !.RevealValue = revealValue.val, !.Key = s.key,
                          !.Signer = s.signer],
              frame |-> f4, err |-> Nil]

\* a mutated buildDeactivateRequest: a failed default reveal value ends the build
buildDeactivateRequest_AbortOnReveal(id, cfg, o, lib) ==
    LET s == getSigner(o.SigningKey, o.SigningKeyID)
        didSuffix == getUniqueSuffix(id)
        revealValue == IF o.RevealValue = ""
                       THEN defaultRevealValue(s.key, cfg, lib.revealFail)
                       ELSE [val |-> o.RevealValue, logged |-> Nil]
        f3 == [EmptyFrame EXCEPT !.steps = <<"signer", "suffix",
                                             IF o.RevealValue = "" THEN "defaultReveal"
                                             ELSE "callerReveal">>,
                                 !.signer = s.signer, !.key = s.key,
                                 !.didSuffix = didSuffix.val,
                                 !.logged = revealValue.logged]
    IN  IF s.err # Nil \/ didSuffix.err # Nil \/ lib.newReqFail
        THEN [req |-> NoReq, frame |-> Step(EmptyFrame, "signer"),
              err |-> Err("key not supported")]
        ELSE IF revealValue.logged # Nil
        THEN [req |-> NoReq, frame |-> f3, err |-> revealValue.logged]
        ELSE [req |-> [NoReq EXCEPT !.Type = "deactivate", !.DidSuffix = didSuffix.val,
                          !.RevealValue = revealValue.val, !.Key = s.key,
                          !.Signer = s.signer],
              frame |-> [Step(f3, "assemble") EXCEPT !.revealValue = revealValue.val],
              err |-> Nil]

\* a mutated buildDeactivateRequest: the unique suffix is resolved before the
\* signer
buildDeactivateRequest_SuffixFirst(id, cfg, o, lib) ==
    LET s == getSigner(o.SigningKey, o.SigningKeyID)
        didSuffix == getUniqueSuffix(id)
        revealValue == IF o.RevealValue = ""
                       THEN defaultRevealValue(s.key, cfg, lib.revealFail)
                       ELSE [val |-> o.RevealValue, logged |-> Nil]
        f1 == Step(EmptyFrame, "suffix")
        f2 == [Step(f1, "signer") EXCEPT !.didSuffix = didSuffix.val]
        f3 == [Step(f2, IF o.RevealValue = "" THEN "defaultReveal" ELSE "callerReveal")
                  EXCEPT !.signer = s.signer, !.key = s.key]
        f4 == [Step(f3, "assemble") EXCEPT !.revealValue = revealValue.val,
                                           !.logged = revealValue.logged]
    IN  IF didSuffix.err # Nil
        THEN [req |-> NoReq, frame |-> f1, err |-> didSuffix.err]
        ELSE IF s.err # Nil
        THEN [req |-> NoReq, frame |-> f2, err |-> s.err]
        ELSE IF lib.newReqFail
        THEN [req |-> NoReq, frame |-> f4, err |-> Err("invalid deactivate request")]
        ELSE [req |-> [NoReq EXCEPT !.Type = "deactivate", !.DidSuffix = didSuffix.val,
                          !.RevealValue = revealValue.val, !.Key = s.key,
                          !.Signer = s.signer],
              frame |-> f4, err |-> Nil]

\* buildDeactivateRequest
buildDeactivateRequest(id, cfg, o, lib) ==
    LET s == getSigner(o.SigningKey, o.SigningKeyID)
        didSuffix == getUniqueSuffix(id)
        revealValue == IF o.RevealValue = ""
                       THEN defaultRevealValue(s.key, cfg, lib.revealFail)
                       ELSE [val |-> o.RevealValue, logged |-> Nil]
        f1 == Step(EmptyFrame, "signer")
        f2 == [Step(f1, "suffix") EXCEPT !.signer = s.signer, !.key = s.key]
        f3 == [Step(f2, IF o.RevealValue = "" THEN "defaultReveal" ELSE "callerReveal")
                  EXCEPT !.didSuffix = didSuffix.val]
        f4 == [Step(f3, "assemble") EXCEPT !.revealValue = revealValue.val,
                                           !.logged = revealValue.logged]
    IN  IF s.err # Nil
        THEN [req |-> NoReq, frame |-> f1, err |-> s.err]
        ELSE IF didSuffix.err # Nil
        THEN [req |-> NoReq, frame |-> f2, err |-> didSuffix.err]
        ELSE IF lib.newReqFail
        THEN [req |-> NoReq, frame |-> f4, err |-> Err("invalid deactivate request")]
        ELSE [req |-> [NoReq EXCEPT !.Type = "deactivate", !.DidSuffix = didSuffix.val,
                          !.RevealValue = revealValue.val, !.Key = s.key,
                          !.Signer = s.signer],
              frame |-> f4, err |-> Nil]

\* buildRecoverRequest
buildRecoverRequest(id, cfg, o, lib) ==
    LET publicKeys == rangeKeys(o.PublicKeys)
        parsedKeys == parseKeys(o.PublicKeys, <<>>)
        didDoc == [PublicKey |-> parsedKeys.val, Service |-> o.Services]
        c == getCommitment(cfg, o)
        s == getSigner(o.SigningKey, o.SigningKeyID)
        didSuffix == getUniqueSuffix(id)
        revealValue == IF o.RevealValue = ""
                       THEN defaultRevealValue(s.key, cfg, lib.revealFail)
                       ELSE [val |-> o.RevealValue, logged |-> Nil]
        f1 == Step(EmptyFrame, "document")
        f2 == [Step(f1, "commitment") EXCEPT !.doc = didDoc]
        f3 == [Step(f2, "signer") EXCEPT !.recoveryCommitment = c.recovery,
                                         !.updateCommitment = c.update]
        f4 == [Step(f3, "suffix") EXCEPT !.signer = s.signer, !.key = s.key]
        f5 == [Step(f4, IF o.RevealValue = "" THEN "defaultReveal" ELSE "callerReveal")
                  EXCEPT !.didSuffix = didSuffix.val]
        f6 == [Step(f5, "assemble") EXCEPT !.revealValue = revealValue.val,
                                           !.logged = revealValue.logged]
    IN  IF parsedKeys.err # Nil
        THEN [publicKeys |-> publicKeys, req |-> NoReq,
              frame |-> f1, err |-> parsedKeys.err]
        ELSE IF lib.docFail
        THEN [publicKeys |-> publicKeys, req |-> NoReq,
              frame |-> f1,
              err |-> Wrap("failed to get document bytes : ", Err("json: error"))]
        ELSE IF c.err # Nil
        THEN [publicKeys |-> publicKeys, req |-> NoReq,
              frame |-> f2, err |-> c.err]
        ELSE IF s.err # Nil
        THEN [publicKeys |-> publicKeys, req |-> NoReq,
              frame |-> f3, err |-> s.err]
        ELSE IF didSuffix.err # Nil
        THEN [publicKeys |-> publicKeys, req |-> NoReq,
              frame |-> f4, err |-> didSuffix.err]
        ELSE IF lib.newReqFail
        THEN [publicKeys |-> publicKeys, req |-> NoReq,
              frame |-> f6,
              err |-> Wrap("failed to create sidetree request", Err("invalid recover request"))]
        ELSE [publicKeys |-> publicKeys,
              req |-> [NoReq EXCEPT !.Type = "recover", !.DidSuffix = didSuffix.val,
                          !.RevealValue = revealValue.val, !.OpaqueDocument = didDoc,
                          !.RecoveryCommitment = c.recovery,
                          !.UpdateCommitment = c.update,
                          !.MultihashCode = cfg, !.Signer = s.signer, !.Key = s.key],
              frame |-> f6, err |-> Nil]

-----------------------------------------------------------------------------
(* Transport *)

NoPost == [url |-> "", body |-> NoReq, contentType |-> "", authorization |-> ""]
NoResp == [status |-> 0, body |-> "", readErr |-> FALSE, closeErr |-> FALSE]

\* what the network answers to one sendRequest
\* (a field the code does not get to read is left at its first value)
NetAnswers ==
    {n \in [newReqErr : BOOLEAN, doErr : BOOLEAN, readErr : BOOLEAN,
            status : {StatusOK, 201, 500}, body : {"body"}, closeErr : BOOLEAN] :
        /\ n.newReqErr => ~n.doErr
        /\ (n.newReqErr \/ n.doErr) => ~n.readErr /\ ~n.closeErr
        /\ (n.newReqErr \/ n.doErr \/ n.readErr) => n.status = StatusOK}

\* a mutated sendRequest: the response status is not checked
sendRequest_NoStatusCheck(r, endpointURL, authToken, net) ==
    LET httpReq == [url |-> endpointURL \o "/operations", body |-> r,
                    contentType |-> "application/json",
                    authorization |-> IF authToken # "" THEN authToken ELSE ""]
        got == [status |-> net.status, body |-> net.body, readErr |-> net.readErr,
                closeErr |-> net.closeErr]
    IN  IF net.newReqErr
        THEN [err |-> Wrap("failed to create http request", Err("invalid URL")),
              posted |-> FALSE, post |-> NoPost, resp |-> NoResp, closed |-> FALSE]
        ELSE IF net.doErr
        THEN [err |-> Wrap("failed to send request", Err("connection refused")),
              posted |-> TRUE, post |-> httpReq, resp |-> NoResp, closed |-> FALSE]
        ELSE IF net.readErr
        THEN [err |-> Wrap("failed to read response : ", Err("unexpected EOF")),
              posted |-> TRUE, post |-> httpReq, resp |-> got, closed |-> TRUE]
        ELSE [err |-> Nil, posted |-> TRUE, post |-> httpReq, resp |-> got,
              closed |-> TRUE]

\* Client.sendRequest; net is what the HTTP stack answers
sendRequest(r, endpointURL, authToken, net) ==
    LET httpReq == [url |-> endpointURL \o "/operations", body |-> r,
                    contentType |-> "application/json",
                    authorization |-> IF authToken # "" THEN authToken ELSE ""]
        got == [status |-> net.status, body |-> net.body, readErr |-> net.readErr,
                closeErr |-> net.closeErr]
    IN  IF net.newReqErr
        THEN [err |-> Wrap("failed to create http request", Err("invalid URL")),
              posted |-> FALSE, post |-> NoPost, resp |-> NoResp, closed |-> FALSE]
        ELSE IF net.doErr
        THEN [err |-> Wrap("failed to send request", Err("connection refused")),
              posted |-> TRUE, post |-> httpReq, resp |-> NoResp, closed |-> FALSE]
        ELSE IF net.readErr
        THEN [err |-> Wrap("failed to read response : ", Err("unexpected EOF")),
              posted |-> TRUE, post |-> httpReq, resp |-> got, closed |-> TRUE]
        ELSE IF net.status # StatusOK
        THEN [err |-> Err("got unexpected response from " \o endpointURL \o " status '"
                          \o ToString(net.status) \o "' body " \o net.body),
              posted |-> TRUE, post |-> httpReq, resp |-> got, closed |-> TRUE]
        ELSE [err |-> Nil, posted |-> TRUE, post |-> httpReq, resp |-> got,
              closed |-> TRUE]

-----------------------------------------------------------------------------
(* Inputs of a call *)

Callers == {"p1"}

CallDIDs == {<<"a", "a">>, <<"a", ":", "a">>, <<":", "a", ":">>}
Domains == {"", "d1"}
CallEndpointLists == {<<>>, <<[URL |-> "u1"], [URL |-> "u2"]>>}
CallDiscoveryAnswers ==
    {[endpoints |-> <<>>, err |-> Err("discovery failed")],
     [endpoints |-> <<>>, err |-> Nil],
     [endpoints |-> <<[URL |-> "u2"], [URL |-> "u1"]>>, err |-> Nil]}
CallSigningKeys == {k \in SigningKeys : k.valid}
CallUpdateKeys == {k \in NextKeys : k.id # "pub:k2"}
CallRecoveryKeys == {k \in NextKeys : k.id # "pub:n1"}

\* what configService.GetSidetreeConfig answers
ConfigAnswers ==
    {[alg |-> a, err |-> Nil] : a \in Algs}
        \cup {[alg |-> "", err |-> Err("config fetch failed")]}

IdLists == {<<>>, <<"id1">>, <<"id1", "id2">>}
ServiceLists == {<<>>, <<[ID |-> "svc1"]>>}
AddKeyLists == {<<>>, <<DocKey("key2", "raw")>>,
                <<[DocKey("key3", "raw") EXCEPT !.Type = "badType"]>>}
DocKeyLists == {<<>>, <<DocKey("key1", "badjwk")>>,
                <<DocKey("key2", "jwk"), DocKey("key1", "raw")>>,
                <<DocKey("key1", "raw"), DocKey("key3", "badjwk")>>}

\* the zero value of the three Opts structs, on one record shape
ZeroOpts == [SigningKey |-> NilKey, SigningKeyID |-> "",
             NextUpdatePublicKey |-> NilKey, NextRecoveryPublicKey |-> NilKey,
             RevealValue |-> "", SidetreeEndpoints |-> <<>>,
             RemovePublicKeys |-> <<>>, RemoveServices |-> <<>>,
             AddServices |-> <<>>, AddPublicKeys |-> <<>>,
             PublicKeys |-> <<>>, Services |-> <<>>]

CommonOpts ==
    {[ZeroOpts EXCEPT !.SigningKey = sk, !.SigningKeyID = "kid",
                      !.RevealValue = rv, !.SidetreeEndpoints = eps] :
        sk \in {NilKey} \cup CallSigningKeys, rv \in {"", "rv1"},
        eps \in CallEndpointLists}

\* the add/remove collections of an update, as combinations of the lists above
PatchInputs ==
    [RemovePublicKeys : IdLists, RemoveServices : IdLists,
     AddServices : ServiceLists, AddPublicKeys : AddKeyLists]
WithPatchInputs(o, x) ==
    [o EXCEPT !.RemovePublicKeys = x.RemovePublicKeys,
              !.RemoveServices = x.RemoveServices,
              !.AddServices = x.AddServices, !.AddPublicKeys = x.AddPublicKeys]
CallPatchInputs ==
    {x \in PatchInputs :
        /\ Len(x.RemovePublicKeys) <= 1
        /\ Len(x.RemoveServices) <= 1
        /\ \/ x.RemovePublicKeys = <<>> /\ x.RemoveServices = <<>>
                 /\ x.AddPublicKeys = <<>>
           \/ x.RemovePublicKeys # <<>> /\ x.RemoveServices # <<>>
                 /\ x.AddServices # <<>> /\ x.AddPublicKeys # <<>>}

UpdateOpts ==
    {WithPatchInputs([o EXCEPT !.NextUpdatePublicKey = nu], x) :
        o \in CommonOpts, nu \in {NilKey} \cup CallUpdateKeys, x \in CallPatchInputs}

RecoverOpts ==
    {[o EXCEPT !.NextUpdatePublicKey = nu, !.NextRecoveryPublicKey = nr,
               !.PublicKeys = pk, !.Services = <<[ID |-> "svc1"]>>] :
        o \in CommonOpts, nu \in {NilKey} \cup CallUpdateKeys,
        nr \in {NilKey} \cup CallRecoveryKeys, pk \in DocKeyLists}

DeactivateOpts == CommonOpts

-----------------------------------------------------------------------------
(* The handlers *)

\* a collaborator invocation: the service, its argument, its answer
NoRet == [endpoints |-> <<>>, alg |-> "", err |-> Nil]
NoCall == [svc |-> "none", arg |-> "", post |-> NoPost, ret |-> NoRet]

\* the handler returns e
Return(p, e) ==
    /\ err' = [err EXCEPT ![p] = e]
    /\ pc' = [pc EXCEPT ![p] = "done"]

\* the handler starts: arguments and applied options become its locals
Enter(p, o, name, d, dom) ==
    /\ pc[p] = "idle"
    /\ op' = [op EXCEPT ![p] = name]
    /\ did' = [did EXCEPT ![p] = d]
    /\ domain' = [domain EXCEPT ![p] = dom]
    /\ opts' = [opts EXCEPT ![p] = o]
    /\ UNCHANGED <<cfgClient, sidetreeEndpoint, sidetreeConfig, frame, req, resp,
                   calls, fnVars>>

\* a mutated validateRecoverReq: the signing key is not checked
validateRecoverReq_NoSigningKey(o) ==
    IF o.NextRecoveryPublicKey = NilKey
    THEN Err("next recovery public key is required")
    ELSE IF o.NextUpdatePublicKey = NilKey
    THEN Err("next update public key is required")
    ELSE Nil

\* a mutated validateRecoverReq: the list of public keys is checked as well
validateRecoverReq_RequiresPublicKeys(o) ==
    IF o.NextRecoveryPublicKey = NilKey
    THEN Err("next recovery public key is required")
    ELSE IF o.NextUpdatePublicKey = NilKey
    THEN Err("next update public key is required")
    ELSE IF o.SigningKey = NilKey
    THEN Err("signing key is required")
    ELSE IF o.PublicKeys = <<>>
    THEN Err("public keys are required")
    ELSE Nil

\* validateRecoverReq
validateRecoverReq(o) ==
    IF o.NextRecoveryPublicKey = NilKey
    THEN Err("next recovery public key is required")
    ELSE IF o.NextUpdatePublicKey = NilKey
    THEN Err("next update public key is required")
    ELSE IF o.SigningKey = NilKey
    THEN Err("signing key is required")
    ELSE Nil

\* the option checks at the head of UpdateDID
validateUpdateReq(o) ==
    IF o.SigningKey = NilKey
    THEN Err("signing public key is required")
    ELSE IF o.NextUpdatePublicKey = NilKey
    THEN Err("next update public key is required")
    ELSE Nil

\* the option check at the head of DeactivateDID
validateDeactivateReq(o) ==
    IF o.SigningKey = NilKey
    THEN Err("signing key is required")
    ELSE Nil

\* UpdateDID up to its first collaborator call
UpdateDID(p) ==
    \E d \in CallDIDs, dom \in Domains, o \in UpdateOpts :
        /\ Enter(p, o, "Update", d, dom)
        /\ IF validateUpdateReq(o) # Nil
           THEN Return(p, validateUpdateReq(o))
           ELSE pc' = [pc EXCEPT ![p] = "getEndpoint"] /\ UNCHANGED err

\* RecoverDID up to its first collaborator call
RecoverDID(p) ==
    \E d \in CallDIDs, dom \in Domains, o \in RecoverOpts :
        /\ Enter(p, o, "Recover", d, dom)
        /\ IF validateRecoverReq(o) # Nil
           THEN Return(p, validateRecoverReq(o))
           ELSE pc' = [pc EXCEPT ![p] = "getEndpoint"] /\ UNCHANGED err

\* DeactivateDID up to its first collaborator call
DeactivateDID(p) ==
    \E d \in CallDIDs, dom \in Domains, o \in DeactivateOpts :
        /\ Enter(p, o, "Deactivate", d, dom)
        /\ IF validateDeactivateReq(o) # Nil
           THEN Return(p, validateDeactivateReq(o))
           ELSE pc' = [pc EXCEPT ![p] = "getEndpoint"] /\ UNCHANGED err

\* a mutated handler: the resolved endpoint is kept in one place for all calls
GetEndpoint_SharedField(p) ==
    /\ pc[p] = "getEndpoint"
    /\ \E ans \in CallDiscoveryAnswers :
        LET r == getEndpoint(domain[p], opts[p].SidetreeEndpoints, ans)
        IN  /\ calls' = [calls EXCEPT ![p] =
                   IF r.discovered
                   THEN Append(@, [NoCall EXCEPT !.svc = "GetEndpoints",
                                                 !.arg = domain[p],
                                                 !.ret.endpoints = ans.endpoints,
                                                 !.ret.err = ans.err])
                   ELSE @]
            /\ IF r.err # Nil
               THEN Return(p, r.err) /\ UNCHANGED sidetreeEndpoint
               ELSE /\ sidetreeEndpoint' = [q \in Procs |-> r.url]
                    /\ pc' = [pc EXCEPT ![p] = "getConfig"]
                    /\ UNCHANGED err
    /\ UNCHANGED <<cfgClient, op, did, domain, opts, sidetreeConfig, frame, req,
                   resp, fnVars>>

\* c.getEndpoint(domain, opts.SidetreeEndpoints) and the handler's check of it
GetEndpoint(p) ==
    /\ pc[p] = "getEndpoint"
    /\ \E ans \in CallDiscoveryAnswers :
        LET r == getEndpoint(domain[p], opts[p].SidetreeEndpoints, ans)
        IN  /\ calls' = [calls EXCEPT ![p] =
                   IF r.discovered
                   THEN Append(@, [NoCall EXCEPT !.svc = "GetEndpoints",
                                                 !.arg = domain[p],
                                                 !.ret.endpoints = ans.endpoints,
                                                 !.ret.err = ans.err])
                   ELSE @]
            /\ IF r.err # Nil
               THEN Return(p, r.err) /\ UNCHANGED sidetreeEndpoint
               ELSE /\ sidetreeEndpoint' = [sidetreeEndpoint EXCEPT ![p] = r.url]
                    /\ pc' = [pc EXCEPT ![p] = "getConfig"]
                    /\ UNCHANGED err
    /\ UNCHANGED <<cfgClient, op, did, domain, opts, sidetreeConfig, frame, req,
                   resp, fnVars>>

\* c.configService.GetSidetreeConfig(sidetreeEndpoint) and the handler's check
GetSidetreeConfig(p) ==
    /\ pc[p] = "getConfig"
    /\ \E ans \in ConfigAnswers :
        /\ calls' = [calls EXCEPT ![p] =
               Append(@, [NoCall EXCEPT !.svc = "GetSidetreeConfig",
                                        !.arg = sidetreeEndpoint[p],
                                        !.ret.alg = ans.alg, !.ret.err = ans.err])]
        /\ IF ans.err # Nil
           THEN Return(p, ans.err) /\ UNCHANGED sidetreeConfig
           ELSE /\ sidetreeConfig' = [sidetreeConfig EXCEPT ![p] = ans.alg]
                /\ pc' = [pc EXCEPT ![p] = "build"]
                /\ UNCHANGED err
    /\ UNCHANGED <<cfgClient, op, did, domain, opts, sidetreeEndpoint, frame, req,
                   resp, fnVars>>

\* the message each handler wraps a build failure with
BuildFailure(name) ==
    IF name = "Update" THEN "failed to build update request"
    ELSE "failed to build sidetree request"

\* the caller's options after the build b: only the recover builder hands its
\* keys to a callee
OptsAfter(o, b) ==
    IF "publicKeys" \in DOMAIN b THEN [o EXCEPT !.PublicKeys = b.publicKeys] ELSE o

\* a mutated handler: the builder's error is returned as it is
Built_Unwrapped(p, b, msg) ==
    /\ pc[p] = "build"
    /\ frame' = [frame EXCEPT ![p] = b.frame]
    /\ IF b.err # Nil
       THEN Return(p, b.err) /\ UNCHANGED req
       ELSE /\ req' = [req EXCEPT ![p] = b.req]
            /\ pc' = [pc EXCEPT ![p] = "send"]
            /\ UNCHANGED err
    /\ opts' = [opts EXCEPT ![p] = OptsAfter(@, b)]
    /\ UNCHANGED <<cfgClient, op, did, domain, sidetreeEndpoint,
                   sidetreeConfig, resp, calls, fnVars>>

\* the handler takes the builder's result b, wrapping its error with msg
Built(p, b, msg) ==
    /\ pc[p] = "build"
    /\ frame' = [frame EXCEPT ![p] = b.frame]
    /\ IF b.err # Nil
       THEN Return(p, Wrap(msg, b.err)) /\ UNCHANGED req
       ELSE /\ req' = [req EXCEPT ![p] = b.req]
            /\ pc' = [pc EXCEPT ![p] = "send"]
            /\ UNCHANGED err
    /\ opts' = [opts EXCEPT ![p] = OptsAfter(@, b)]
    /\ UNCHANGED <<cfgClient, op, did, domain, sidetreeEndpoint,
                   sidetreeConfig, resp, calls, fnVars>>

BuildUpdateRequest(p) ==
    /\ op[p] = "Update"
    /\ \E lib \in UpdateLibAnswers :
        Built(p, buildUpdateRequest(did[p], sidetreeConfig[p], opts[p], lib),
              BuildFailure("Update"))

BuildRecoverRequest(p) ==
    /\ op[p] = "Recover"
    /\ \E lib \in RecoverLibAnswers :
        Built(p, buildRecoverRequest(did[p], sidetreeConfig[p], opts[p], lib),
              BuildFailure("Recover"))

BuildDeactivateRequest(p) ==
    /\ op[p] = "Deactivate"
    /\ \E lib \in DeactivateLibAnswers :
        Built(p, buildDeactivateRequest(did[p], sidetreeConfig[p], opts[p], lib),
              BuildFailure("Deactivate"))

\* the message each handler wraps a send failure with
SendFailure(name) ==
    IF name = "Update" THEN "failed to send create sidetree request"
    ELSE IF name = "Recover" THEN "failed to send recover sidetree request"
    ELSE "failed to send deactivate sidetree request"

\* a mutated handler: a failed send is tried a second time
SendRequest_Retry(p) ==
    /\ pc[p] = "send"
    /\ \E net \in NetAnswers :
        LET r == sendRequest(req[p], sidetreeEndpoint[p], cfgClient.authToken, net)
            posted == [NoCall EXCEPT !.svc = "POST", !.arg = r.post.url,
                                     !.post = r.post]
        IN  /\ calls' = [calls EXCEPT ![p] =
                   IF ~r.posted THEN @
                   ELSE IF r.err # Nil THEN @ \o <<posted, posted>>
                   ELSE Append(@, posted)]
            /\ resp' = [resp EXCEPT ![p] = r.resp]
            /\ Return(p, IF r.err # Nil THEN Wrap(SendFailure(op[p]), r.err) ELSE Nil)
    /\ UNCHANGED <<cfgClient, op, did, domain, opts, sidetreeEndpoint,
                   sidetreeConfig, frame, req, fnVars>>

\* c.sendRequest(req, sidetreeEndpoint) and the handler's return
SendRequest(p) ==
    /\ pc[p] = "send"
    /\ \E net \in NetAnswers :
        LET r == sendRequest(req[p], sidetreeEndpoint[p], cfgClient.authToken, net)
        IN  /\ calls' = [calls EXCEPT ![p] =
                   IF r.posted
                   THEN Append(@, [NoCall EXCEPT !.svc = "POST", !.arg = r.post.url,
                                                 !.post = r.post])
                   ELSE @]
            /\ resp' = [resp EXCEPT ![p] = r.resp]
            /\ Return(p, IF r.err # Nil THEN Wrap(SendFailure(op[p]), r.err) ELSE Nil)
    /\ UNCHANGED <<cfgClient, op, did, domain, opts, sidetreeEndpoint,
                   sidetreeConfig, frame, req, fnVars>>

-----------------------------------------------------------------------------
(* The client after New, no call started *)

Init ==
    /\ cfgClient \in [authToken : {"", "token"}]
    /\ pc = [p \in Procs |-> "idle"]
    /\ op = [p \in Procs |-> "none"]
    /\ did = [p \in Procs |-> <<>>]
    /\ domain = [p \in Procs |-> ""]
    /\ opts = [p \in Procs |-> ZeroOpts]
    /\ sidetreeEndpoint = [p \in Procs |-> ""]
    /\ sidetreeConfig = [p \in Procs |-> ""]
    /\ frame = [p \in Procs |-> EmptyFrame]
    /\ req = [p \in Procs |-> NoReq]
    /\ resp = [p \in Procs |-> NoResp]
    /\ err = [p \in Procs |-> Nil]
    /\ calls = [p \in Procs |-> <<>>]
    /\ fnPc = "idle"
    /\ fnArgs = [fn |-> "none"]
    /\ fnOut = [fn |-> "none"]

Next ==
    \E p \in Callers :
        \/ UpdateDID(p)
        \/ RecoverDID(p)
        \/ DeactivateDID(p)
        \/ GetEndpoint(p)
        \/ GetSidetreeConfig(p)
        \/ BuildUpdateRequest(p)
        \/ BuildRecoverRequest(p)
        \/ BuildDeactivateRequest(p)
        \/ SendRequest(p)

Spec == Init /\ [][Next]_vars

-----------------------------------------------------------------------------
(* Unit applications of the helpers, on inputs from the bounded sets *)

Applied(args, out) ==
    /\ fnPc' = "done"
    /\ fnArgs' = args
    /\ fnOut' = out
    /\ UNCHANGED callVars

ApplyGetEndpoint ==
    /\ fnPc = "idle"
    /\ \E dom \in Domains, eps \in EndpointLists, ans \in DiscoveryAnswers :
        Applied([fn |-> "getEndpoint", domain |-> dom, sidetreeEndpoints |-> eps,
                 ans |-> ans],
                getEndpoint(dom, eps, ans))

ApplyGetUniqueSuffix ==
    /\ fnPc = "idle"
    /\ \E id \in DIDs :
        Applied([fn |-> "getUniqueSuffix", id |-> id], getUniqueSuffix(id))

ApplyCreateUpdatePatches ==
    /\ fnPc = "idle"
    /\ \E x \in PatchInputs, libFail \in SUBSET PatchActionSet :
        Applied([fn |-> "createUpdatePatches", o |-> WithPatchInputs(ZeroOpts, x),
                 libFail |-> libFail],
                createUpdatePatches(WithPatchInputs(ZeroOpts, x), libFail))

ApplyGetSigner ==
    /\ fnPc = "idle"
    /\ \E k \in {NilKey} \cup SigningKeys, kid \in {"", "kid"} :
        Applied([fn |-> "getSigner", signingkey |-> k, keyID |-> kid],
                getSigner(k, kid))

ApplyDefaultRevealValue ==
    /\ fnPc = "idle"
    /\ \E k \in SigningKeys, alg \in Algs, libFail \in BOOLEAN :
        Applied([fn |-> "defaultRevealValue", jwk |-> GetPublicKeyJWK(Public(k)).val,
                 multihashCode |-> alg, libFail |-> libFail],
                defaultRevealValue(GetPublicKeyJWK(Public(k)).val, alg, libFail))

NextFn ==
    \/ ApplyGetEndpoint
    \/ ApplyGetUniqueSuffix
    \/ ApplyCreateUpdatePatches
    \/ ApplyGetSigner
    \/ ApplyDefaultRevealValue

SpecFn == Init /\ [][NextFn]_vars

-----------------------------------------------------------------------------
(* Claims *)

Svcs(p) == {calls[p][i].svc : i \in 1..Len(calls[p])}
Posts(p) == {i \in 1..Len(calls[p]) : calls[p][i].svc = "POST"}
Started(p) == op[p] # "none"

\* the messages of the required options that the call p leaves out
MissingMessages(p) ==
    LET o == opts[p]
    IN  IF op[p] = "Update"
        THEN {"signing public key is required" : x \in {1} \cap
                    (IF o.SigningKey = NilKey THEN {1} ELSE {})}
             \cup {"next update public key is required" : x \in {1} \cap
                    (IF o.NextUpdatePublicKey = NilKey THEN {1} ELSE {})}
        ELSE IF op[p] = "Recover"
        THEN {"next recovery public key is required" : x \in {1} \cap
                    (IF o.NextRecoveryPublicKey = NilKey THEN {1} ELSE {})}
             \cup {"next update public key is required" : x \in {1} \cap
                    (IF o.NextUpdatePublicKey = NilKey THEN {1} ELSE {})}
             \cup {"signing key is required" : x \in {1} \cap
                    (IF o.SigningKey = NilKey THEN {1} ELSE {})}
        ELSE IF op[p] = "Deactivate"
        THEN {"signing key is required" : x \in {1} \cap
                    (IF o.SigningKey = NilKey THEN {1} ELSE {})}
        ELSE {}

\* C1: a call of UpdateDID, RecoverDID or DeactivateDID that leaves out a
\* required option has returned the message of a left-out option, whatever its
\* domain and endpoint list, and has invoked no collaborator: no endpoint
\* discovery, no config fetch, no POST.
C1_MissingOptionNoNetwork ==
    \A p \in Procs :
        (Started(p) /\ MissingMessages(p) # {}) =>
            /\ pc[p] = "done"
            /\ err[p] \in {Err(m) : m \in MissingMessages(p)}
            /\ calls[p] = <<>>

C1_Witness ==
    \E p \in Procs :
        /\ op[p] = "Recover"
        /\ opts[p].NextRecoveryPublicKey = NilKey
        /\ opts[p].NextUpdatePublicKey # NilKey
        /\ opts[p].SigningKey # NilKey
        /\ domain[p] # ""
        /\ opts[p].SidetreeEndpoints # <<>>
        /\ pc[p] = "done"
        /\ err[p] = Err("next recovery public key is required")

FnDone(name) == fnPc = "done" /\ fnArgs.fn = name

\* C2: getEndpoint with an empty domain fails with "domain is empty and
\* sidetree endpoints is empty" when the explicit list is empty, and otherwise
\* returns the URL of the first explicit endpoint without invoking discovery;
\* a successful getEndpoint returns the URL of the first element of the list
\* it used, and no call indexes an empty list.
C2_GetEndpoint ==
    FnDone("getEndpoint") =>
        LET a == fnArgs
            r == fnOut
        IN  /\ (a.domain = "" /\ a.sidetreeEndpoints = <<>>) =>
                   r.err = Err("domain is empty and sidetree endpoints is empty")
            /\ (a.domain = "" /\ a.sidetreeEndpoints # <<>>) =>
                   /\ r.err = Nil
                   /\ r.url = a.sidetreeEndpoints[1].URL
                   /\ ~r.discovered
            /\ r.err = Nil =>
                   /\ r.used = IF a.domain = "" THEN a.sidetreeEndpoints
                               ELSE a.ans.endpoints
                   /\ r.used # <<>>
                   /\ r.url = r.used[1].URL
            /\ r.err # PanicIndex

C2_Witness ==
    /\ FnDone("getEndpoint")
    /\ fnArgs.domain = ""
    /\ Len(fnArgs.sidetreeEndpoints) = 2
    /\ fnArgs.sidetreeEndpoints[1] # fnArgs.sidetreeEndpoints[2]
    /\ fnOut.err = Nil
    /\ fnOut.url = fnArgs.sidetreeEndpoints[1].URL

\* the URL a request meant for the endpoint e is posted to
OperationsURL(e) == e.URL \o "/operations"

\* C3 as stated: a call whose options carry a non-empty explicit endpoint list
\* never invokes endpoint discovery and posts only to an endpoint of that list,
\* whatever the domain.
C3_ExplicitListAlwaysBypasses ==
    \A p \in Procs :
        (Started(p) /\ opts[p].SidetreeEndpoints # <<>>) =>
            /\ "GetEndpoints" \notin Svcs(p)
            /\ \A i \in Posts(p) :
                   \E k \in 1..Len(opts[p].SidetreeEndpoints) :
                       calls[p][i].arg = OperationsURL(opts[p].SidetreeEndpoints[k])

\* the call p has an endpoint: getEndpoint returned without error
Resolved(p) ==
    \/ pc[p] \in {"getConfig", "build", "send"}
    \/ pc[p] = "done" /\ "GetSidetreeConfig" \in Svcs(p)

\* C3, amended: the explicit endpoint list bypasses discovery only when the
\* domain is empty.  With an empty domain and a non-empty explicit list,
\* discovery is never invoked and the config fetch and the POST go to the first
\* endpoint of the explicit list.  With a non-empty domain, discovery is
\* invoked with that domain even when an explicit list is given, and the config
\* fetch and the POST go to the first discovered endpoint.
C3_ExplicitListBypassesOnEmptyDomain ==
    \A p \in Procs :
        /\ (Started(p) /\ domain[p] = "" /\ opts[p].SidetreeEndpoints # <<>>) =>
               /\ "GetEndpoints" \notin Svcs(p)
               /\ Resolved(p) => sidetreeEndpoint[p] = opts[p].SidetreeEndpoints[1].URL
               /\ \A i \in Posts(p) :
                      calls[p][i].arg = OperationsURL(opts[p].SidetreeEndpoints[1])
        /\ (Resolved(p) /\ domain[p] # "") =>
               /\ calls[p] # <<>>
               /\ calls[p][1].svc = "GetEndpoints"
               /\ calls[p][1].arg = domain[p]
               /\ sidetreeEndpoint[p] = calls[p][1].ret.endpoints[1].URL
               /\ \A i \in Posts(p) :
                      calls[p][i].arg = OperationsURL(calls[p][1].ret.endpoints[1])

C3_Witness ==
    \E p \in Procs :
        /\ domain[p] = ""
        /\ Len(opts[p].SidetreeEndpoints) = 2
        /\ Svcs(p) = {"GetSidetreeConfig", "POST"}
        /\ \E i \in Posts(p) :
               calls[p][i].arg = OperationsURL(opts[p].SidetreeEndpoints[1])

\* the collection of the options that feeds the patch category a
Collection(o, a) ==
    IF a = "remove-public-keys" THEN o.RemovePublicKeys
    ELSE IF a = "remove-services" THEN o.RemoveServices
    ELSE IF a = "add-services" THEN o.AddServices
    ELSE o.AddPublicKeys

Position(a) == CHOOSE i \in 1..Len(PatchActions) : PatchActions[i] = a

\* C4: when the construction of every non-empty category succeeds,
\* createUpdatePatches returns exactly one patch for each non-empty category
\* and none for an empty one, in the order remove-keys, remove-services,
\* add-services, add-keys; with all four empty it returns the empty list.
C4_PatchesPerCategoryInOrder ==
    FnDone("createUpdatePatches") =>
        LET o == fnArgs.o
            nonEmpty == {a \in PatchActionSet : Collection(o, a) # <<>>}
            ps == fnOut.val
        IN  (/\ nonEmpty \cap fnArgs.libFail = {}
             /\ \A i \in 1..Len(o.AddPublicKeys) : o.AddPublicKeys[i].Type # "badType")
            =>
            /\ fnOut.err = Nil
            /\ {ps[i].action : i \in 1..Len(ps)} = nonEmpty
            /\ Len(ps) = Cardinality(nonEmpty)
            /\ \A i, j \in 1..Len(ps) :
                   i < j => Position(ps[i].action) < Position(ps[j].action)
            /\ \A i \in 1..Len(ps) : ps[i].value = Collection(o, ps[i].action)
            /\ nonEmpty = {} => ps = <<>>

C4_Witness ==
    /\ FnDone("createUpdatePatches")
    /\ \A a \in PatchActionSet : Collection(fnArgs.o, a) # <<>>
    /\ fnOut.err = Nil
    /\ Len(fnOut.val) = 4

\* C5: getUniqueSuffix fails exactly when the id holds no colon; otherwise it
\* returns what follows the last colon: the id is a prefix ending in ":"
\* followed by the result, and the result holds no colon.
C5_SuffixAfterLastColon ==
    FnDone("getUniqueSuffix") =>
        LET id == fnArgs.id
            r == fnOut
        IN  /\ r.err # Nil <=> \A i \in 1..Len(id) : id[i] # ":"
            /\ r.err = Nil =>
                   /\ \A j \in 1..Len(r.val) : r.val[j] # ":"
                   /\ \E k \in 1..Len(id) :
                          /\ id[k] = ":"
                          /\ id = SubSeq(id, 1, k) \o r.val

C5_Witness ==
    /\ FnDone("getUniqueSuffix")
    /\ Cardinality({i \in 1..Len(fnArgs.id) : fnArgs.id[i] = ":"}) >= 2
    /\ fnOut.err = Nil
    /\ fnOut.val # <<>>

\* the builder of call p has run
BuildRan(p) == frame[p] # EmptyFrame
\* the builder of call p has returned a request
BuiltOK(p) == req[p] # NoReq
LastStep(p) == frame[p].steps[Len(frame[p].steps)]
StepsOf(p) == {frame[p].steps[i] : i \in 1..Len(frame[p].steps)}
ConfigCall(p) ==
    calls[p][CHOOSE i \in 1..Len(calls[p]) : calls[p][i].svc = "GetSidetreeConfig"]

CommitmentOf(pub, alg) == GetCommitment(GetPublicKeyJWK(pub).val, alg).val

\* C7: in every request that was built, the config was fetched for the
\* resolved endpoint, the request's multihash code is that config's algorithm,
\* and each commitment is the commitment of the caller's matching next key
\* under that algorithm: update commitment from NextUpdatePublicKey, recovery
\* commitment from NextRecoveryPublicKey.
C7_CommitmentsOfNextKeys ==
    \A p \in Procs :
        (BuiltOK(p) /\ op[p] \in {"Update", "Recover"}) =>
            LET alg == ConfigCall(p).ret.alg
                o == opts[p]
            IN  /\ ConfigCall(p).arg = sidetreeEndpoint[p]
                /\ req[p].MultihashCode = alg
                /\ req[p].UpdateCommitment = CommitmentOf(o.NextUpdatePublicKey, alg)
                /\ req[p].UpdateCommitment # ""
                /\ op[p] = "Recover" =>
                       /\ req[p].RecoveryCommitment =
                              CommitmentOf(o.NextRecoveryPublicKey, alg)
                       /\ req[p].RecoveryCommitment # ""
                /\ op[p] = "Update" => req[p].RecoveryCommitment = ""

C7_Witness ==
    \E p \in Procs :
        /\ BuiltOK(p)
        /\ op[p] = "Recover"
        /\ opts[p].NextUpdatePublicKey # opts[p].NextRecoveryPublicKey
        /\ opts[p].NextUpdatePublicKey.id # Public(opts[p].SigningKey).id
        /\ req[p].RecoveryCommitment # req[p].UpdateCommitment
        /\ req[p].MultihashCode = "sha2_512"

\* the public JWK of the signing key of call p
SigningJWK(p) == GetPublicKeyJWK(Public(opts[p].SigningKey)).val

\* C8: in every request that was built, the reveal value is the caller's
\* RevealValue when that is non-empty, and the default derivation was not run;
\* otherwise it is what defaultRevealValue gives for the public key of the
\* signing key under the config's algorithm.
C8_RevealValueCallerOrDefault ==
    \A p \in Procs :
        BuiltOK(p) =>
            LET alg == ConfigCall(p).ret.alg
            IN  /\ opts[p].RevealValue # "" =>
                       /\ req[p].RevealValue = opts[p].RevealValue
                       /\ "defaultReveal" \notin StepsOf(p)
                /\ opts[p].RevealValue = "" =>
                       /\ req[p].RevealValue \in
                              {defaultRevealValue(SigningJWK(p), alg, fails).val :
                                   fails \in BOOLEAN}
                       /\ req[p].Key = SigningJWK(p)

C8_Witness ==
    \E p \in Procs :
        /\ BuiltOK(p)
        /\ op[p] = "Update"
        /\ opts[p].RevealValue = ""
        /\ req[p].RevealValue = GetRevealValue(SigningJWK(p), sidetreeConfig[p], FALSE).val
        /\ req[p].RevealValue # ""

\* the errors the request assembly of the library returns through the builders
AssemblyErrors ==
    {Err("invalid update request"), Err("invalid deactivate request"),
     Wrap("failed to create sidetree request", Err("invalid recover request"))}

\* C9: when the default reveal value cannot be derived, the failure is only
\* logged: the reveal value is empty and the build goes on to the request
\* assembly with it, so the build ends with a request whose reveal value is
\* empty or with the assembly's own error.  A build that starts the default
\* derivation always reaches the assembly.
C9_RevealFailureIsSoft ==
    \A p \in Procs :
        BuildRan(p) =>
            /\ frame[p].logged # Nil =>
                   /\ frame[p].revealValue = ""
                   /\ LastStep(p) = "assemble"
                   /\ \/ BuiltOK(p) /\ req[p].RevealValue = "" /\ pc[p] \in {"send", "done"}
                      \/ /\ ~BuiltOK(p)
                         /\ pc[p] = "done"
                         /\ \E e \in AssemblyErrors : err[p] = Wrap(BuildFailure(op[p]), e)
            /\ "defaultReveal" \in StepsOf(p) => LastStep(p) = "assemble"
            /\ (/\ "defaultReveal" \in StepsOf(p)
                /\ sidetreeConfig[p] \notin SupportedAlgs) => frame[p].logged # Nil

C9_Witness ==
    \E p \in Procs :
        /\ op[p] = "Update"
        /\ frame[p].logged # Nil
        /\ BuiltOK(p)
        /\ req[p].RevealValue = ""
        /\ pc[p] = "send"

\* C10: every POST goes to <endpoint>/operations with the built request as its
\* body; a call returns nil only after exactly one POST that answered 200; an
\* answer with another status makes the call fail with an error that embeds
\* the status code and the response body; an answer of 200 that was read makes
\* the call succeed, also when closing the response body fails.
C10_Non200IsFailure ==
    \A p \in Procs :
        /\ \A i \in Posts(p) :
               /\ calls[p][i].arg = sidetreeEndpoint[p] \o "/operations"
               /\ calls[p][i].post.body = req[p]
               /\ BuiltOK(p)
        /\ (Started(p) /\ pc[p] = "done" /\ err[p] = Nil) =>
               /\ Cardinality(Posts(p)) = 1
               /\ resp[p].status = StatusOK
        /\ (pc[p] = "done" /\ Posts(p) # {} /\ ~resp[p].readErr) =>
               /\ resp[p].status \notin {StatusOK, NoResp.status} =>
                      err[p] = Wrap(SendFailure(op[p]),
                                    Err("got unexpected response from "
                                        \o sidetreeEndpoint[p] \o " status '"
                                        \o ToString(resp[p].status) \o "' body "
                                        \o resp[p].body))
               /\ resp[p].status = StatusOK => err[p] = Nil

C10_Witness ==
    \E p \in Procs :
        /\ pc[p] = "done"
        /\ err[p] = Nil
        /\ Cardinality(Posts(p)) = 1
        /\ resp[p].status = StatusOK
        /\ resp[p].closeErr


-----------------------------------------------------------------------------
(* Error propagation *)

\* the call p has returned an error that is not an option-validation error
FailedAfterValidation(p) ==
    Started(p) /\ pc[p] = "done" /\ err[p] # Nil /\ MissingMessages(p) = {}

\* the stage at which the failed call p stopped
FailedStage(p) ==
    IF req[p] # NoReq THEN "send"
    ELSE IF frame[p] # EmptyFrame THEN "build"
    ELSE IF "GetSidetreeConfig" \in Svcs(p) THEN "config"
    ELSE "endpoint"

\* the messages with which endpoint resolution names itself
EndpointMessages ==
    {"domain is empty and sidetree endpoints is empty", "failed to get endpoints",
     "list of endpoints is empty"}

\* e is cause with at least one message put in front of it
Wraps(e, cause) ==
    /\ Len(e) > Len(cause)
    /\ SubSeq(e, Len(e) - Len(cause) + 1, Len(e)) = cause

\* C11: every error that UpdateDID, RecoverDID or DeactivateDID returns after
\* option validation carries a message that identifies the failed stage: an
\* endpoint-resolution failure one of the resolver's messages, a config-fetch
\* failure a message in front of the config service's error, a build failure
\* the handler's build message and a send failure the handler's send message.
C11_EveryStageFailureWrapped ==
    \A p \in Procs :
        FailedAfterValidation(p) =>
            CASE FailedStage(p) = "endpoint" -> Head(err[p]) \in EndpointMessages
              [] FailedStage(p) = "config" ->
                     Wraps(err[p], calls[p][Len(calls[p])].ret.err)
              [] FailedStage(p) = "build" ->
                     Len(err[p]) >= 2 /\ Head(err[p]) = BuildFailure(op[p])
              [] FailedStage(p) = "send" ->
                     Len(err[p]) >= 2 /\ Head(err[p]) = SendFailure(op[p])

\* C11, amended: only build and send failures are wrapped by the handler, with
\* its build message and its send message.  An endpoint-resolution failure is
\* returned as getEndpoint made it (a discovery error behind "failed to get
\* endpoints", the two empty-list errors bare), and a config-fetch failure is
\* the config service's error, unchanged.
C11_OnlyBuildAndSendWrapped ==
    \A p \in Procs :
        FailedAfterValidation(p) =>
            CASE FailedStage(p) = "endpoint" ->
                     /\ Head(err[p]) \in EndpointMessages
                     /\ Len(err[p]) >= 2 <=>
                            /\ calls[p] # <<>>
                            /\ calls[p][1].ret.err # Nil
                     /\ Len(err[p]) >= 2 =>
                            err[p] = Wrap("failed to get endpoints", calls[p][1].ret.err)
              [] FailedStage(p) = "config" ->
                     err[p] = calls[p][Len(calls[p])].ret.err
              [] FailedStage(p) = "build" ->
                     /\ Len(err[p]) >= 2
                     /\ Head(err[p]) = BuildFailure(op[p])
              [] FailedStage(p) = "send" ->
                     /\ Len(err[p]) >= 2
                     /\ Head(err[p]) = SendFailure(op[p])

C11_Witness ==
    \E p \in Procs :
        /\ FailedAfterValidation(p)
        /\ FailedStage(p) = "build"
        /\ op[p] = "Recover"
        /\ err[p] = Wrap(BuildFailure("Recover"), Err("unsupported public key type in kid"))


-----------------------------------------------------------------------------
(* No retries, fail fast *)

\* the place of a collaborator in the order discovery, config fetch, POST
Rank(svc) ==
    IF svc = "GetEndpoints" THEN 1 ELSE IF svc = "GetSidetreeConfig" THEN 2 ELSE 3

\* the invocations of the call p that answered with a failure
FailedCalls(p) ==
    {i \in 1..Len(calls[p]) :
        \/ calls[p][i].ret.err # Nil
        \/ calls[p][i].svc = "GetEndpoints" /\ calls[p][i].ret.endpoints = <<>>}

\* C12: in one invocation the discovery service, the config service and the
\* POST are each invoked at most once and in that order; a failed validation
\* invokes none of them, a collaborator that failed is the last one invoked, a
\* failed build is followed by no POST, every failure ends the invocation with
\* an error, and a POST is made only after endpoint resolution, config fetch
\* and build all succeeded.
C12_NoRetryFailFast ==
    \A p \in Procs :
        /\ \A i, j \in 1..Len(calls[p]) :
               i < j => Rank(calls[p][i].svc) < Rank(calls[p][j].svc)
        /\ MissingMessages(p) # {} => calls[p] = <<>>
        /\ \A i \in FailedCalls(p) :
               /\ i = Len(calls[p])
               /\ pc[p] = "done"
               /\ err[p] # Nil
               /\ frame[p] = EmptyFrame
        /\ (BuildRan(p) /\ ~BuiltOK(p)) =>
               /\ pc[p] = "done"
               /\ err[p] # Nil
               /\ Posts(p) = {}
        /\ err[p] # Nil => pc[p] = "done"
        /\ Posts(p) # {} =>
               /\ MissingMessages(p) = {}
               /\ FailedCalls(p) = {}
               /\ "GetSidetreeConfig" \in Svcs(p)
               /\ domain[p] # "" => "GetEndpoints" \in Svcs(p)
               /\ BuiltOK(p)

C12_Witness ==
    \E p \in Procs :
        /\ pc[p] = "done"
        /\ err[p] # Nil
        /\ Len(calls[p]) = 3
        /\ calls[p][1].svc = "GetEndpoints"
        /\ calls[p][2].svc = "GetSidetreeConfig"
        /\ calls[p][3].svc = "POST"
        /\ resp[p].status = 500


-----------------------------------------------------------------------------
(* Required inputs of RecoverDID *)

\* the messages of option validation
ValidationMessages ==
    {"signing public key is required", "signing key is required",
     "next update public key is required", "next recovery public key is required"}

\* C13 as stated: a RecoverDID call that leaves out the signing key, the next
\* recovery key, the next update key or the public keys of the new document
\* (an absent or empty list) fails and sends no recover request.
C13_AllFourRequired ==
    \A p \in Procs :
        (op[p] = "Recover" /\ (MissingMessages(p) # {} \/ opts[p].PublicKeys = <<>>)) =>
            /\ Posts(p) = {}
            /\ pc[p] = "done" => err[p] # Nil

\* C13, amended: RecoverDID requires three inputs, the next recovery key, the
\* next update key and the signing key, checked in that order; a call that
\* leaves one out fails with its message and invokes no collaborator.  The list
\* of public keys is not required: a call with the three keys passes
\* validation whatever the list, and with an empty list the request it builds
\* carries a document without public keys.
C13_ThreeRequired ==
    \A p \in Procs :
        op[p] = "Recover" =>
            /\ MissingMessages(p) # {} =>
                   /\ pc[p] = "done"
                   /\ err[p] \in {Err(m) : m \in MissingMessages(p)}
                   /\ opts[p].NextRecoveryPublicKey = NilKey =>
                          err[p] = Err("next recovery public key is required")
                   /\ opts[p].NextUpdatePublicKey # NilKey =>
                          err[p] # Err("next update public key is required")
                   /\ calls[p] = <<>>
            /\ MissingMessages(p) = {} =>
                   /\ Len(err[p]) = 1 => Head(err[p]) \notin ValidationMessages
                   /\ pc[p] = "done" => (calls[p] # <<>> \/ domain[p] = "")
                   /\ (BuiltOK(p) /\ opts[p].PublicKeys = <<>>) =>
                          req[p].OpaqueDocument.PublicKey = <<>>

C13_Witness ==
    \E p \in Procs :
        /\ op[p] = "Recover"
        /\ MissingMessages(p) = {}
        /\ opts[p].PublicKeys = <<>>
        /\ pc[p] = "done"
        /\ err[p] = Nil
        /\ \E i \in Posts(p) :
               /\ calls[p][i].post.body.Type = "recover"
               /\ calls[p][i].post.body.OpaqueDocument.PublicKey = <<>>


-----------------------------------------------------------------------------
(* Order of the builders' stages *)

NoSuffix == Err("unique suffix not provided in id")

\* the error of the builder of the call p, under the handler's message
BuildError(p) == Tail(err[p])

\* the stages the builder of the call p entered, the two ways of getting a
\* reveal value under one name
StagesOf(p) ==
    [i \in 1..Len(frame[p].steps) |->
        IF frame[p].steps[i] \in {"defaultReveal", "callerReveal"} THEN "reveal"
        ELSE frame[p].steps[i]]

IsPrefix(s, t) == Len(s) <= Len(t) /\ s = SubSeq(t, 1, Len(s))

\* C14 as stated: the unique suffix is resolved first, so that the build of a
\* DID without a colon fails with the unique-suffix error whatever else is
\* wrong with its inputs.
C14_SuffixResolvedFirst ==
    \A p \in Procs :
        (BuildRan(p) /\ LastIndex(did[p], ":") = -1) =>
            err[p] = Wrap(BuildFailure(op[p]), NoSuffix)

\* the order in which each builder runs its stages
StageOrder(name) ==
    IF name = "Update"
    THEN <<"commitment", "signer", "patches", "suffix", "reveal", "assemble">>
    ELSE IF name = "Recover"
    THEN <<"document", "commitment", "signer", "suffix", "reveal", "assemble">>
    ELSE <<"signer", "suffix", "reveal", "assemble">>

\* C14, amended: buildUpdateRequest runs commitment, signer, patches, unique
\* suffix, reveal value, assembly; buildRecoverRequest runs document (key
\* unwrapping), commitments, signer, unique suffix, reveal value, assembly;
\* buildDeactivateRequest runs signer, unique suffix, reveal value, assembly.
\* A build stops at its earliest faulty stage: a DID without a colon always
\* fails the build, with the unique-suffix error only when every earlier stage
\* succeeded, and otherwise with the error of the invalid next key, of the
\* malformed document key or of the unsupported signing key.
C14_StageOrder ==
    \A p \in Procs :
        BuildRan(p) =>
            /\ IsPrefix(StagesOf(p), StageOrder(op[p]))
            /\ BuiltOK(p) => StagesOf(p) = StageOrder(op[p])
            /\ LastIndex(did[p], ":") = -1 =>
                   /\ ~BuiltOK(p)
                   /\ err[p] # Nil
                   /\ Head(err[p]) = BuildFailure(op[p])
                   /\ BuildError(p) = NoSuffix <=> LastStep(p) = "suffix"
                   /\ getSigner(opts[p].SigningKey, opts[p].SigningKeyID).err # Nil =>
                          /\ BuildError(p) # NoSuffix
                          /\ op[p] = "Deactivate" => BuildError(p) = Err("key not supported")
                   /\ (op[p] = "Update"
                          /\ GetPublicKeyJWK(opts[p].NextUpdatePublicKey).err # Nil) =>
                          Head(BuildError(p)) = "failed to get next update key : "
                   /\ (op[p] = "Recover"
                          /\ parseKeys(opts[p].PublicKeys, <<>>).err # Nil) =>
                          BuildError(p) = parseKeys(opts[p].PublicKeys, <<>>).err
            /\ (~BuiltOK(p) /\ BuildError(p) = NoSuffix) =>
                   LastIndex(did[p], ":") = -1

C14_Witness ==
    \E p \in Procs :
        /\ op[p] = "Deactivate"
        /\ LastIndex(did[p], ":") = -1
        /\ opts[p].SigningKey.type = "rsa"
        /\ pc[p] = "done"
        /\ StagesOf(p) = <<"signer">>
        /\ err[p] = Wrap(BuildFailure("Deactivate"), Err("key not supported"))


-----------------------------------------------------------------------------
(* Keys of the recovery document *)

\* the key of the new document that unwrapping makes of the supplied key k
Unwrapped(k) ==
    IF k.Value.kind = "jwk"
    THEN [ID |-> k.ID, Type |-> k.Type,
          Value |-> [kind |-> "raw", data |-> "public(" \o k.Value.data \o ")"]]
    ELSE k

\* the places of the supplied keys whose JWK value cannot be extracted
BadKeys(keys) == {i \in 1..Len(keys) : keys[i].Value.kind = "badjwk"}

-----------------------------------------------------------------------------
(* Two calls at once on one Client *)

\* the arguments of the calls made at once: one call per operation
ConcUpdateInputs ==
    {[did |-> <<"a", ":", "a">>, domain |-> "",
      opts |-> [ZeroOpts EXCEPT !.SigningKey = [type |-> "ecdsa", id |-> "k1", valid |-> TRUE],
                                !.SigningKeyID = "kid",
                                !.SidetreeEndpoints = <<[URL |-> "u1"], [URL |-> "u2"]>>,
                                !.NextUpdatePublicKey = [type |-> "ecdsa", id |-> "pub:n1",
                                                         valid |-> TRUE],
                                !.AddServices = <<[ID |-> "svc1"]>>]]}
ConcRecoverInputs ==
    {[did |-> <<":", "a", ":">>, domain |-> "d1",
      opts |-> [ZeroOpts EXCEPT !.SigningKey = [type |-> "ed25519", id |-> "k2", valid |-> TRUE],
                                !.SigningKeyID = "kid",
                                !.NextUpdatePublicKey = [type |-> "ecdsa", id |-> "pub:n1",
                                                         valid |-> TRUE],
                                !.NextRecoveryPublicKey = [type |-> "ed25519", id |-> "pub:k2",
                                                           valid |-> TRUE],
                                !.PublicKeys = <<DocKey("key2", "jwk"), DocKey("key1", "raw")>>,
                                !.Services = <<[ID |-> "svc1"]>>]]}
ConcDeactivateInputs ==
    {[did |-> <<"a", ":", "a">>, domain |-> "d1",
      opts |-> [ZeroOpts EXCEPT !.SigningKey = [type |-> "ecdsa", id |-> "k1", valid |-> TRUE],
                                !.SigningKeyID = "kid", !.RevealValue = "rv1"]]}

\* the answers the collaborators give to the calls made at once
ConcDiscoveryAnswers ==
    {a \in CallDiscoveryAnswers : a.err # Nil \/ a.endpoints # <<>>}
ConcConfigAnswers == {a \in ConfigAnswers : a.alg \in SupportedAlgs}
ConcLibAnswers ==
    {l \in LibAnswers : l.patchFail = {} /\ ~l.docFail /\ ~l.revealFail}
ConcNetAnswers ==
    {n \in NetAnswers : ~n.newReqErr /\ ~n.doErr /\ ~n.readErr /\ ~n.closeErr
                        /\ n.status \in {StatusOK, 500}}

Arguments(p) == [did |-> did[p], domain |-> domain[p], opts |-> opts[p]]

ConcUpdateDID(p) ==
    /\ UpdateDID(p)
    /\ Arguments(p)' \in ConcUpdateInputs

ConcRecoverDID(p) ==
    /\ RecoverDID(p)
    /\ Arguments(p)' \in ConcRecoverInputs

ConcDeactivateDID(p) ==
    /\ DeactivateDID(p)
    /\ Arguments(p)' \in ConcDeactivateInputs

ConcGetEndpoint(p) ==
    /\ GetEndpoint(p)
    /\ \/ calls'[p] = calls[p]
       \/ \E a \in ConcDiscoveryAnswers :
              /\ calls'[p] # calls[p]
              /\ calls'[p][Len(calls'[p])].ret.endpoints = a.endpoints
              /\ calls'[p][Len(calls'[p])].ret.err = a.err

ConcGetSidetreeConfig(p) ==
    /\ GetSidetreeConfig(p)
    /\ \E a \in ConcConfigAnswers :
           /\ calls'[p][Len(calls'[p])].ret.alg = a.alg
           /\ calls'[p][Len(calls'[p])].ret.err = a.err

\* the build of the call p, under the library answers of the calls made at once
ConcBuild(p) ==
    /\ pc[p] = "build"
    /\ \E lib \in ConcLibAnswers :
           Built(p,
                 IF op[p] = "Update"
                 THEN buildUpdateRequest(did[p], sidetreeConfig[p], opts[p], lib)
                 ELSE IF op[p] = "Recover"
                 THEN buildRecoverRequest(did[p], sidetreeConfig[p], opts[p], lib)
                 ELSE buildDeactivateRequest(did[p], sidetreeConfig[p], opts[p], lib),
                 BuildFailure(op[p]))

ConcSendRequest(p) ==
    /\ SendRequest(p)
    /\ \E n \in ConcNetAnswers :
           resp'[p] = [status |-> n.status, body |-> n.body, readErr |-> n.readErr,
                       closeErr |-> n.closeErr]

NextConc ==
    \E p \in Procs :
        \/ ConcUpdateDID(p)
        \/ ConcRecoverDID(p)
        \/ ConcDeactivateDID(p)
        \/ ConcGetEndpoint(p)
        \/ ConcGetSidetreeConfig(p)
        \/ ConcBuild(p)
        \/ ConcSendRequest(p)

SpecConc == Init /\ [][NextConc]_vars

\* what the call (name, a) returns, builds and posts when it runs by itself on
\* a client with the token authToken, under the answers disc, conf, lib and net
RunAlone(name, a, authToken, disc, conf, lib, net) ==
    LET invalid == IF name = "Update" THEN validateUpdateReq(a.opts)
                   ELSE IF name = "Recover" THEN validateRecoverReq(a.opts)
                   ELSE validateDeactivateReq(a.opts)
        e == getEndpoint(a.domain, a.opts.SidetreeEndpoints, disc)
        b == IF name = "Update"
             THEN buildUpdateRequest(a.did, conf.alg, a.opts, lib)
             ELSE IF name = "Recover"
             THEN buildRecoverRequest(a.did, conf.alg, a.opts, lib)
             ELSE buildDeactivateRequest(a.did, conf.alg, a.opts, lib)
        sent == sendRequest(b.req, e.url, authToken, net)
    IN  IF invalid # Nil THEN [err |-> invalid, req |-> NoReq, post |-> NoPost]
        ELSE IF e.err # Nil THEN [err |-> e.err, req |-> NoReq, post |-> NoPost]
        ELSE IF conf.err # Nil THEN [err |-> conf.err, req |-> NoReq, post |-> NoPost]
        ELSE IF b.err # Nil
        THEN [err |-> Wrap(BuildFailure(name), b.err), req |-> NoReq, post |-> NoPost]
        ELSE [err |-> IF sent.err # Nil THEN Wrap(SendFailure(name), sent.err) ELSE Nil,
              req |-> b.req, post |-> sent.post]

\* the answer the call p got from the collaborator svc, none when it was not
\* invoked
Answer(p, svc) ==
    IF svc \in Svcs(p)
    THEN (CHOOSE c \in {calls[p][i] : i \in 1..Len(calls[p])} : c.svc = svc).ret
    ELSE NoRet

\* what the call p posted, nothing when it did not post
Posted(p) ==
    IF Posts(p) = {} THEN NoPost ELSE calls[p][CHOOSE i \in Posts(p) : TRUE].post

\* C16: whatever the other call does meanwhile, a finished call has returned,
\* built and posted (suffix, reveal value, commitments, patches, target
\* endpoint, authorization) what it would have by itself on the client as New
\* left it, under the answers its collaborators gave it; the calls leave no
\* trace in each other's locals.
C16_CallsDoNotInterfere ==
    \A p \in Procs :
        /\ pc[p] = "idle" =>
               /\ Arguments(p) = [did |-> <<>>, domain |-> "", opts |-> ZeroOpts]
               /\ sidetreeEndpoint[p] = "" /\ sidetreeConfig[p] = ""
               /\ frame[p] = EmptyFrame /\ req[p] = NoReq /\ calls[p] = <<>>
        /\ pc[p] = "done" =>
               \E lib \in LibAnswers, net \in NetAnswers :
                   /\ resp[p] \in {NoResp, [status |-> net.status, body |-> net.body,
                                            readErr |-> net.readErr,
                                            closeErr |-> net.closeErr]}
                   /\ [err |-> err[p], req |-> req[p], post |-> Posted(p)]
                          = RunAlone(op[p], Arguments(p), cfgClient.authToken,
                                     [endpoints |-> Answer(p, "GetEndpoints").endpoints,
                                      err |-> Answer(p, "GetEndpoints").err],
                                     [alg |-> Answer(p, "GetSidetreeConfig").alg,
                                      err |-> Answer(p, "GetSidetreeConfig").err],
                                     lib, net)

C16_Witness ==
    /\ pc["p1"] = "done" /\ pc["p2"] = "done"
    /\ err["p1"] = Nil /\ err["p2"] = Nil
    /\ op["p1"] = "Update" /\ op["p2"] = "Recover"
    /\ Posted("p1").url = "u1/operations"
    /\ Posted("p2").url = "u2/operations"
    /\ req["p1"].MultihashCode # req["p2"].MultihashCode
    /\ req["p1"].DidSuffix # req["p2"].DidSuffix

====
